---------------------------- MODULE Spec2Model ----------------------------
(***************************************************************************)
(* Malaysian name ethnicity classifier: the rule engine (classifiers.py)   *)
(* and the pipeline driver with its batch orchestration (main.py).         *)
(*                                                                         *)
(* Names are strings; a confidence c in [0.0, 1.0] is the integer 100 * c. *)
(***************************************************************************)
EXTENDS Integers, Sequences, FiniteSets, TLC

VARIABLES
  names,              \* df[name_column]: the dataset's names, in row order
  MIN_CONFIDENCE_THRESHOLD, \* config.py: float(os.getenv(...)), in percent
  BATCH_SIZE,         \* config.py: int(os.getenv("BATCH_SIZE", 10))
  client,             \* classifiers.py: TRUE iff the AI client was initialised
  pc,                 \* position of main()
  exception,          \* the unhandled exception main() ended with, or "none"
  df,                 \* the DataFrame's ethnicity and confidence columns
  idx,                \* the row of the rule pass (1-based)
  uncertain_indices,  \* main.py:96
  uncertain_names,    \* main.py:97
  i,                  \* the batch loop's offset (0-based, as in the source)
  batch_names,        \* main.py:105
  attempt,            \* tenacity's attempt number for the current batch
  batch_results,      \* main.py:107
  disk,               \* the output file: what the last save_csv wrote
  rule_pass,          \* log: the dataset as the rule pass left it
  batches,            \* log: the batches handed to classify_batch_ai
  calls,              \* log: the invocations of the external classifier
  flushes             \* log: the save_csv calls

vars ==
  << names, MIN_CONFIDENCE_THRESHOLD, BATCH_SIZE, client, pc, exception, df,
     idx, uncertain_indices, uncertain_names, i, batch_names, attempt,
     batch_results, disk, rule_pass, batches, calls, flushes >>

---------------------------------------------------------------------------
(* config.py *)

DEFAULT_BATCH_SIZE ==
  10

DEFAULT_MIN_CONFIDENCE_THRESHOLD ==
  60

MALAYSIAN_CHINESE_SURNAMES ==
  {
    "TAN", "LIM", "LEE", "NG", "ONG", "WONG", "GOH", "CHUA", "CHAN",
    "KOH", "TEO", "ANG", "YEO", "TAY", "HO", "LOW", "TOH", "SIM", "CHONG",
    "CHIA"
  }

MYANMAR_HONORIFICS ==
  {
    "U", "DAW", "SAW", "SA", "SHIN", "PU", "PI", "THAMEIN"
  }

\* A list: classify_myanmar counts the (part, elem) pairs that are equal.
MYANMAR_NAME_ELEMENTS ==
  <<
    "AUNG", "WIN", "THANT", "ZIN", "MYAT", "HTUN", "PHYO", "KYAW", "HTET",
    "THU", "MIN", "NAING", "TUN", "HLAING", "MOE", "SAN", "MAW", "THEIN",
    "SOE", "MYO", "WAI", "THAN", "LWIN", "MAUNG", "KHIN", "YE", "THIHA"
  >>

NEPAL_BRAHMIN_SURNAMES ==
  {
    "SHARMA", "ACHARYA", "PAUDEL", "BHATTARAI", "JOSHI", "ARYAL",
    "SUBEDI", "TIWARI", "UPRETI", "DEVKOTA", "DHAKAL", "KOIRALA", "REGMI",
    "BHATTA", "POKHREL", "ADHIKARI", "CHAPAGAIN", "NEUPANE", "KHANAL",
    "GHIMIRE", "LAMSAL", "GIRI", "BHANDARI", "WAGLE"
  }

NEPAL_CHHETRI_SURNAMES ==
  {
    "KHADKA", "THAPA", "BASNYAT", "BISTA", "RANA", "SHAH", "KUNWAR",
    "RAWAT", "THAKURI", "CHAND", "MAGAR", "BOGATI", "BUDHATHOKI", "MAHAT",
    "RAUT", "KARKI", "BOHARA", "KHATRI", "BUDHA", "ROKA", "PANTA",
    "MALLA", "KHADAYAT", "KATHAYAT"
  }

NEPAL_NEWAR_SURNAMES ==
  {
    "SHRESTHA", "MAHARJAN", "PRADHAN", "DANGOL", "BAJRACHARYA", "SHAKYA",
    "MANANDHAR", "TULADHAR", "JOSHI", "AMATYA", "RAJBHANDARI", "NAKARMI",
    "SUWAL", "CHITRAKAR", "MOOL", "RAJKARNIKAR"
  }

NEPAL_ETHNIC_SURNAMES ==
  {
    "GURUNG", "TAMANG", "RAI", "LIMBU", "SHERPA", "MAGAR", "LAMA",
    "GHALE", "THAKALI", "BHOTE", "YONJAN", "RUMBA", "JIMBA", "CHEMJONG",
    "PHOMBO", "LAWATI", "LOPCHAN", "THOKAR"
  }

NEPAL_DALIT_SURNAMES ==
  {
    "KAMI", "BISHWAKARMA", "B.K.", "DAMAI", "PARIYAR", "SARKI", "NEPALI",
    "GANDHARVA", "SUNAR", "LOHAR", "CHUNARA", "PARKI", "KUMAL", "MUSAHAR"
  }

BANGLADESH_SURNAMES ==
  {
    "RAHMAN", "HOSSAIN", "ISLAM", "AHMED", "AHMAD", "KHAN", "ALI",
    "UDDIN", "ALAM", "KARIM", "MIAH", "CHOWDHURY", "SIKDER", "SHEIKH",
    "MOLLA", "BHUIYAN", "SARKAR", "TALUKDAR", "BISWAS", "MANDAL",
    "HASSAN", "HUSSAIN", "BEGUM", "KHANAM", "SULTANA", "SIDDIQUE",
    "AKHTER", "HAQUE", "FAKIR"
  }

BANGLADESH_FEMALE_MARKERS ==
  {
    "KHATUN", "BEGUM", "AKTER", "SULTANA", "PARVIN", "NASRIN", "YASMIN",
    "FATIMA", "KHANAM", "NAHAR", "AKHTAR", "JAHAN"
  }

BANGLADESH_NAME_PREFIXES ==
  {
    "MOHAMMAD", "MOHAMMED", "MD", "ABDUL", "ABU", "SHEIKH", "SYED", "MIR",
    "SHAH", "KHONDOKAR", "KHAN"
  }

RULE_BASED_CONFIDENCE ==
  [ MALAY_PATRONYMIC     |-> 100,
    INDIAN_PATRONYMIC    |-> 95,
    CHINESE_SURNAME      |-> 85,
    MYANMAR_FULL_PATTERN |-> 90,
    MYANMAR_PARTIAL      |-> 70,
    NEPAL_CASTE_SURNAME  |-> 95,
    BANGLADESH_FULL      |-> 90,
    BANGLADESH_PARTIAL   |-> 70 ]

---------------------------------------------------------------------------
(* Values *)

\* A cell of the name column: a str, or a value that is no str (pandas reads
\* an empty cell as NaN, a float).
StrName(s) ==
  [isStr |-> TRUE, s |-> s]

NaN ==
  [isStr |-> FALSE, s |-> ""]

\* EthnicityPrediction.ethnicity: the Literal of the closed label set.
EthnicityLabels ==
  {"Malay", "Chinese", "Indian", "Myanmar", "Nepal", "Bangladesh", "Uncertain"}

\* A (ethnicity, confidence) tuple.
Result(e, c) ==
  [ethnicity |-> e, confidence |-> c]

\* ("Uncertain", 0.0)
Uncertain ==
  Result("Uncertain", 0)

\* A cell of the ethnicity column that was never assigned (pandas: NaN).
Missing ==
  "NaN"

---------------------------------------------------------------------------
(* Strings: str.upper, str.strip, re.sub(r'\s+', ' ', .), str.split, in *)

Char(s, k) ==
  SubSeq(s, k, k)

\* The characters Python's str.strip() and the regex class \s take as
\* whitespace, among those the modelled names use.
Whitespace ==
  {" ", "\t", "\n", "\r", "\f"}

\* The upper-case form of each lower-case letter.
UpperCase ==
  [c \in {"a", "b", "c", "d", "e", "f", "g", "h", "i", "j", "k", "l", "m",
          "n", "o", "p", "q", "r", "s", "t", "u", "v", "w", "x", "y", "z"} |->
     CASE c = "a" -> "A" [] c = "b" -> "B" [] c = "c" -> "C" [] c = "d" -> "D"
       [] c = "e" -> "E" [] c = "f" -> "F" [] c = "g" -> "G" [] c = "h" -> "H"
       [] c = "i" -> "I" [] c = "j" -> "J" [] c = "k" -> "K" [] c = "l" -> "L"
       [] c = "m" -> "M" [] c = "n" -> "N" [] c = "o" -> "O" [] c = "p" -> "P"
       [] c = "q" -> "Q" [] c = "r" -> "R" [] c = "s" -> "S" [] c = "t" -> "T"
       [] c = "u" -> "U" [] c = "v" -> "V" [] c = "w" -> "W" [] c = "x" -> "X"
       [] c = "y" -> "Y" [] c = "z" -> "Z"]

UpperChar(c) ==
  IF c \in DOMAIN UpperCase THEN UpperCase[c] ELSE c

RECURSIVE Upper(_)
\* str.upper()
Upper(s) ==
  IF Len(s) = 0 THEN "" ELSE UpperChar(Char(s, 1)) \o Upper(SubSeq(s, 2, Len(s)))

RECURSIVE LStrip(_)
LStrip(s) ==
  IF Len(s) > 0 /\ Char(s, 1) \in Whitespace
    THEN LStrip(SubSeq(s, 2, Len(s)))
    ELSE s

RECURSIVE RStrip(_)
RStrip(s) ==
  IF Len(s) > 0 /\ Char(s, Len(s)) \in Whitespace
    THEN RStrip(SubSeq(s, 1, Len(s) - 1))
    ELSE s

\* str.strip()
Strip(s) ==
  RStrip(LStrip(s))

RECURSIVE CollapseFrom(_, _)
CollapseFrom(s, k) ==
  IF k > Len(s) THEN ""
  ELSE IF Char(s, k) \in Whitespace
    THEN (IF k > 1 /\ Char(s, k - 1) \in Whitespace THEN "" ELSE " ")
           \o CollapseFrom(s, k + 1)
    ELSE Char(s, k) \o CollapseFrom(s, k + 1)

RECURSIVE CollapsePairsFrom(_, _)
CollapsePairsFrom(s, k) ==
  IF k > Len(s) THEN ""
  ELSE IF k < Len(s) /\ Char(s, k) \in Whitespace /\ Char(s, k + 1) \in Whitespace
    THEN " " \o CollapsePairsFrom(s, k + 2)
    ELSE Char(s, k) \o CollapsePairsFrom(s, k + 1)

\* Faulty variant: re.sub(r'\s\s', ' ', s), which halves a run of whitespace
\* instead of collapsing it.
CollapseWhitespace_pairs(s) ==
  CollapsePairsFrom(s, 1)

\* re.sub(r'\s+', ' ', s): every maximal run of whitespace becomes one space.
CollapseWhitespace(s) ==
  CollapseFrom(s, 1)

\* sub in s
Contains(s, sub) ==
  \E k \in 1..(Len(s) - Len(sub) + 1) : SubSeq(s, k, k + Len(sub) - 1) = sub

RECURSIVE SplitOn(_, _, _)
\* The pieces of s between the characters of seps, empty pieces included;
\* cur is the piece being read.
SplitOn(s, seps, cur) ==
  IF Len(s) = 0 THEN << cur >>
  ELSE IF Char(s, 1) \in seps
    THEN << cur >> \o SplitOn(SubSeq(s, 2, Len(s)), seps, "")
    ELSE SplitOn(SubSeq(s, 2, Len(s)), seps, cur \o Char(s, 1))

\* s.split(' '): split at every single space; "" gives [''].
SplitSpace(s) ==
  SplitOn(s, {" "}, "")

\* s.split(): split at runs of whitespace, no empty pieces; "" gives [].
SplitWords(s) ==
  SelectSeq(SplitOn(s, Whitespace, ""), LAMBDA p : p # "")

\* any(part in S for part in parts)
AnyIn(parts, S) ==
  \E k \in 1..Len(parts) : parts[k] \in S

---------------------------------------------------------------------------
(* classifiers.py: the rule engine *)

\* normalize_name
normalize_name(name) ==
  IF ~name.isStr THEN ""
  ELSE CollapseWhitespace(Strip(Upper(name.s)))

\* is_malay
is_malay(normalized_name) ==
  Contains(normalized_name, " BIN ") \/ Contains(normalized_name, " BINTI ")

\* is_indian
is_indian(normalized_name) ==
  \E marker \in {" A/P ", " A/L ", " ANAK ", " S/O ", " D/O "} :
    Contains(normalized_name, marker)

\* is_chinese
is_chinese(normalized_name, surname_list) ==
  AnyIn(SplitSpace(normalized_name), surname_list)

\* A detector's (matched, confidence) tuple.
Detection(m, c) ==
  [matched |-> m, confidence |-> c]

\* sum(1 for part in parts for elem in MYANMAR_NAME_ELEMENTS if elem == part)
ElementCount(parts) ==
  Cardinality({ pe \in (1..Len(parts)) \X (1..Len(MYANMAR_NAME_ELEMENTS)) :
                  MYANMAR_NAME_ELEMENTS[pe[2]] = parts[pe[1]] })

\* Faulty variant: the honorific-and-typical-structure branch is tested first.
classify_myanmar_reordered(normalized_name) ==
  LET parts == SplitWords(normalized_name)
      has_honorific == AnyIn(parts, MYANMAR_HONORIFICS)
      element_count == ElementCount(parts)
      word_count == Len(parts)
      typical_structure == 1 <= word_count /\ word_count <= 3
  IN  IF has_honorific /\ typical_structure
        THEN Detection(TRUE, 75)
      ELSE IF has_honorific /\ element_count > 0
        THEN Detection(TRUE, RULE_BASED_CONFIDENCE.MYANMAR_FULL_PATTERN)
      ELSE IF element_count >= 2 /\ typical_structure
        THEN Detection(TRUE, RULE_BASED_CONFIDENCE.MYANMAR_PARTIAL)
      ELSE IF element_count = 1 /\ typical_structure /\ word_count <= 2
        THEN Detection(TRUE, 65)
      ELSE Detection(FALSE, 0)

\* classify_myanmar
classify_myanmar(normalized_name) ==
  LET parts == SplitWords(normalized_name)
      has_honorific == AnyIn(parts, MYANMAR_HONORIFICS)
      element_count == ElementCount(parts)
      word_count == Len(parts)
      typical_structure == 1 <= word_count /\ word_count <= 3
  IN  IF has_honorific /\ element_count > 0
        THEN Detection(TRUE, RULE_BASED_CONFIDENCE.MYANMAR_FULL_PATTERN)
      ELSE IF has_honorific /\ typical_structure
        THEN Detection(TRUE, 75)
      ELSE IF element_count >= 2 /\ typical_structure
        THEN Detection(TRUE, RULE_BASED_CONFIDENCE.MYANMAR_PARTIAL)
      ELSE IF element_count = 1 /\ typical_structure /\ word_count <= 2
        THEN Detection(TRUE, 65)
      ELSE Detection(FALSE, 0)

RECURSIVE NepalFrom(_, _)
\* classify_nepal's loop over the parts, from part k on.
NepalFrom(parts, k) ==
  IF k > Len(parts) THEN Detection(FALSE, 0)
  ELSE IF parts[k] \in NEPAL_BRAHMIN_SURNAMES \/ parts[k] \in NEPAL_CHHETRI_SURNAMES
    THEN Detection(TRUE, RULE_BASED_CONFIDENCE.NEPAL_CASTE_SURNAME)
  ELSE IF parts[k] \in NEPAL_NEWAR_SURNAMES \/ parts[k] \in NEPAL_ETHNIC_SURNAMES
    THEN Detection(TRUE, RULE_BASED_CONFIDENCE.NEPAL_CASTE_SURNAME)
  ELSE IF parts[k] \in NEPAL_DALIT_SURNAMES
    THEN Detection(TRUE, 90)
  ELSE NepalFrom(parts, k + 1)

\* classify_nepal
classify_nepal(normalized_name) ==
  NepalFrom(SplitWords(normalized_name), 1)

\* classify_bangladesh
classify_bangladesh(normalized_name) ==
  LET parts == SplitWords(normalized_name)
      has_prefix == AnyIn(parts, BANGLADESH_NAME_PREFIXES)
      has_surname == AnyIn(parts, BANGLADESH_SURNAMES)
      has_female_marker == AnyIn(parts, BANGLADESH_FEMALE_MARKERS)
      indicator_count ==
        (IF has_prefix THEN 1 ELSE 0) + (IF has_surname THEN 1 ELSE 0)
          + (IF has_female_marker THEN 1 ELSE 0)
  IN  IF indicator_count >= 2
        THEN Detection(TRUE, RULE_BASED_CONFIDENCE.BANGLADESH_FULL)
      ELSE IF has_surname \/ has_female_marker
        THEN Detection(TRUE, 80)
      ELSE IF has_prefix /\ Len(parts) >= 2
        THEN Detection(TRUE, RULE_BASED_CONFIDENCE.BANGLADESH_PARTIAL)
      ELSE Detection(FALSE, 0)

\* Faulty variant: the Chinese surname check runs before the Malay marker check.
classify_ethnicity_rules_chinese_first(full_name, threshold) ==
  IF ~full_name.isStr \/ full_name.s = "" THEN Uncertain
  ELSE
    LET normalized == normalize_name(full_name)
        myanmar_result == classify_myanmar(normalized)
        nepal_result == classify_nepal(normalized)
        bangladesh_result == classify_bangladesh(normalized)
    IN  IF is_chinese(normalized, MALAYSIAN_CHINESE_SURNAMES)
          THEN Result("Chinese", RULE_BASED_CONFIDENCE.CHINESE_SURNAME)
        ELSE IF is_malay(normalized)
          THEN Result("Malay", RULE_BASED_CONFIDENCE.MALAY_PATRONYMIC)
        ELSE IF is_indian(normalized)
          THEN Result("Indian", RULE_BASED_CONFIDENCE.INDIAN_PATRONYMIC)
        ELSE IF myanmar_result.matched /\ myanmar_result.confidence >= threshold
          THEN Result("Myanmar", myanmar_result.confidence)
        ELSE IF nepal_result.matched /\ nepal_result.confidence >= threshold
          THEN Result("Nepal", nepal_result.confidence)
        ELSE IF bangladesh_result.matched /\ bangladesh_result.confidence >= threshold
          THEN Result("Bangladesh", bangladesh_result.confidence)
        ELSE Uncertain

\* classify_ethnicity_rules_with_confidence, under the configured threshold
classify_ethnicity_rules_with_confidence(full_name, threshold) ==
  IF ~full_name.isStr \/ full_name.s = "" THEN Uncertain
  ELSE
    LET normalized == normalize_name(full_name)
        myanmar_result == classify_myanmar(normalized)
        nepal_result == classify_nepal(normalized)
        bangladesh_result == classify_bangladesh(normalized)
    IN  IF is_malay(normalized)
          THEN Result("Malay", RULE_BASED_CONFIDENCE.MALAY_PATRONYMIC)
        ELSE IF is_indian(normalized)
          THEN Result("Indian", RULE_BASED_CONFIDENCE.INDIAN_PATRONYMIC)
        ELSE IF is_chinese(normalized, MALAYSIAN_CHINESE_SURNAMES)
          THEN Result("Chinese", RULE_BASED_CONFIDENCE.CHINESE_SURNAME)
        ELSE IF myanmar_result.matched /\ myanmar_result.confidence >= threshold
          THEN Result("Myanmar", myanmar_result.confidence)
        ELSE IF nepal_result.matched /\ nepal_result.confidence >= threshold
          THEN Result("Nepal", nepal_result.confidence)
        ELSE IF bangladesh_result.matched /\ bangladesh_result.confidence >= threshold
          THEN Result("Bangladesh", bangladesh_result.confidence)
        ELSE Uncertain

---------------------------------------------------------------------------
(* classifiers.py: classify_batch_ai and the external classifier *)

\* stop_after_attempt(3)
STOP_AFTER_ATTEMPT ==
  3

\* Faulty variant: the fallback leaves the rows without a label.
FallbackResults_none(n) ==
  [j \in 1..n |-> Result(Missing, 0)]

\* [("Uncertain", 0.0)] * n
FallbackResults(n) ==
  [j \in 1..n |-> Uncertain]

\* What one call of client.chat.completions.create does: it raises (network
\* error, response that fails validation), or returns a
\* BatchNameEthnicityPrediction whose predictions are a list of any length.
Raises ==
  [raised |-> TRUE, predictions |-> <<>>]

Response(predictions) ==
  [raised |-> FALSE, predictions |-> predictions]

\* Answers of the external classifier (valid labels and confidences).
AiAnswers ==
  << Result("Malay", 90), Result("Chinese", 50) >>

\* A response of m predictions whose answers differ by position.
Predictions(m, shift) ==
  [j \in 1..m |-> AiAnswers[((j + shift) % Len(AiAnswers)) + 1]]

\* The outcomes of one call for a batch of n names: an exception, a response
\* of the right length, one prediction too few, one too many.
Outcomes(n) ==
  {Raises}
    \cup { Response(Predictions(n, shift)) : shift \in 0..(Len(AiAnswers) - 1) }
    \cup { Response(Predictions(m, 0)) : m \in {n - 1, n + 1} \cap Nat }

\* The body of classify_batch_ai for one outcome of the external call:
\* whether it raises, the value it returns, whether the classifier was called.
Returned(value, invoked) ==
  [raised |-> FALSE, value |-> value, invoked |-> invoked]

\* Faulty variant: the body without its try/except, so the exception reaches tenacity.
classify_batch_ai_body_uncaught(cl, name_batch, outcome) ==
  IF ~cl
    THEN Returned(FallbackResults(Len(name_batch)), FALSE)
  ELSE IF outcome.raised
    THEN [raised |-> TRUE, value |-> <<>>, invoked |-> TRUE]
  ELSE IF Len(outcome.predictions) # Len(name_batch)
    THEN Returned(FallbackResults(Len(name_batch)), TRUE)
  ELSE Returned(outcome.predictions, TRUE)

\* Faulty variant: a response of the wrong length is cut or padded to the batch's
\* length instead of being discarded.
classify_batch_ai_body_partial(cl, name_batch, outcome) ==
  IF ~cl \/ outcome.raised
    THEN Returned(FallbackResults(Len(name_batch)), cl)
  ELSE Returned([j \in 1..Len(name_batch) |->
                   IF j <= Len(outcome.predictions)
                     THEN outcome.predictions[j] ELSE Uncertain], TRUE)

classify_batch_ai_body(cl, name_batch, outcome) ==
  IF ~cl
    THEN Returned(FallbackResults(Len(name_batch)), FALSE)
  ELSE IF outcome.raised
    THEN Returned(FallbackResults(Len(name_batch)), TRUE)
  ELSE IF Len(outcome.predictions) # Len(name_batch)
    THEN Returned(FallbackResults(Len(name_batch)), TRUE)
  ELSE Returned(outcome.predictions, TRUE)

---------------------------------------------------------------------------
(* main.py *)

\* seq[a:b] of Python, a >= 0
Slice(seq, a, b) ==
  SubSeq(seq, a + 1, IF b < Len(seq) THEN b ELSE Len(seq))

\* Faulty variant: the two conditions of the mask are joined by & instead of |.
uncertain_or_low_conf_mask_and(row, threshold) ==
  row.ethnicity = "Uncertain" /\ row.confidence < threshold

\* Faulty variant: the confidence is compared with <= instead of <.
uncertain_or_low_conf_mask_le(row, threshold) ==
  row.ethnicity = "Uncertain" \/ row.confidence <= threshold

\* (df['ethnicity'] == 'Uncertain') | (df['confidence'] < MIN_CONFIDENCE_THRESHOLD)
uncertain_or_low_conf_mask(row, threshold) ==
  row.ethnicity = "Uncertain" \/ row.confidence < threshold

\* df.index[mask]
MaskedIndices(d, threshold) ==
  SelectSeq([k \in 1..Len(d) |-> k],
            LAMBDA k : uncertain_or_low_conf_mask(d[k], threshold))

\* df.loc[mask, name_column].tolist()
MaskedNames(d, column, threshold) ==
  LET ix == MaskedIndices(d, threshold)
  IN  [k \in 1..Len(ix) |-> column[ix[k]]]

\* Faulty variant: the slice ends one name early.
BatchSlice_short(unc_names, offset, size) ==
  Slice(unc_names, offset, offset + size - 1)

\* uncertain_names[i:i + BATCH_SIZE]
BatchSlice(unc_names, offset, size) ==
  Slice(unc_names, offset, offset + size)

\* Faulty variant: the rows are taken from df.index, not from uncertain_indices.
CurrentIndices_df_index(unc_indices, offset, n) ==
  [k \in 1..n |-> offset + k]

\* Faulty variant: the slice of uncertain_indices forgets the batch's offset.
CurrentIndices_no_offset(unc_indices, offset, n) ==
  Slice(unc_indices, 0, n)

\* uncertain_indices[i:i + len(batch_names)]
CurrentIndices(unc_indices, offset, n) ==
  Slice(unc_indices, offset, offset + n)

\* Faulty variant: the results are paired with the batch's rows from the far end.
ApplyResults_reversed(d, current_indices, results) ==
  [k \in 1..Len(d) |->
     IF \E j \in 1..Len(results) : current_indices[j] = k
       THEN results[Len(results) + 1
                      - (CHOOSE j \in 1..Len(results) : current_indices[j] = k)]
       ELSE d[k]]

\* for j, (ethnicity, confidence) in enumerate(batch_results): df.loc[...] = ...
ApplyResults(d, current_indices, results) ==
  [k \in 1..Len(d) |->
     IF \E j \in 1..Len(results) : current_indices[j] = k
       THEN results[CHOOSE j \in 1..Len(results) : current_indices[j] = k]
       ELSE d[k]]

\* The number of the batch that starts at offset i (i // BATCH_SIZE + 1).
BatchNo ==
  (i \div BATCH_SIZE) + 1

\* Faulty variant: save_csv is handed a copy of the DataFrame taken when the
\* rule pass ended, not the DataFrame the loop updates.
Flush_stale(k) ==
  /\ disk' = [written |-> TRUE, rows |-> rule_pass]
  /\ flushes' = Append(flushes, [batch |-> k, rows |-> rule_pass])

\* save_csv(df, output_file), as the k-th batch's flush (k = 0: end of run)
Flush(k) ==
  /\ disk' = [written |-> TRUE, rows |-> df]
  /\ flushes' = Append(flushes, [batch |-> k, rows |-> df])

\* main(), lines 60-62: df = load_csv(input_file); return if it is None
LoadCsv ==
  /\ pc = "load"
  /\ \E loaded \in BOOLEAN : pc' = IF loaded THEN "detect" ELSE "returned"
  /\ UNCHANGED << names, MIN_CONFIDENCE_THRESHOLD, BATCH_SIZE, client, exception,
                  df, idx, uncertain_indices, uncertain_names, i, batch_names,
                  attempt, batch_results, disk, rule_pass, batches, calls, flushes >>

\* main(), lines 65-78: detect the name column (return if that fails), then
\* df['confidence'] = 0.0; no row has an ethnicity yet
DetectColumn ==
  /\ pc = "detect"
  /\ \E detected \in BOOLEAN :
       IF detected
         THEN /\ pc' = "rules"
              /\ df' = [k \in 1..Len(names) |-> Result(Missing, 0)]
         ELSE /\ pc' = "returned"
              /\ df' = df
  /\ idx' = 1
  /\ UNCHANGED << names, MIN_CONFIDENCE_THRESHOLD, BATCH_SIZE, client, exception,
                  uncertain_indices, uncertain_names, i, batch_names,
                  attempt, batch_results, disk, rule_pass, batches, calls, flushes >>

\* main(), lines 81-85: one iteration of the rule pass
RuleRow ==
  /\ pc = "rules"
  /\ idx <= Len(names)
  /\ df' = [df EXCEPT ![idx] =
              classify_ethnicity_rules_with_confidence(names[idx],
                                                       MIN_CONFIDENCE_THRESHOLD)]
  /\ idx' = idx + 1
  /\ UNCHANGED << names, MIN_CONFIDENCE_THRESHOLD, BATCH_SIZE, client, pc,
                  exception, uncertain_indices, uncertain_names, i, batch_names,
                  attempt, batch_results, disk, rule_pass, batches, calls, flushes >>

\* main(), lines 87-102: the statistics of the rule pass (df['ethnicity'] is a
\* KeyError when no row was assigned), then the unresolved rows
RulesDone ==
  /\ pc = "rules"
  /\ idx > Len(names)
  /\ IF Len(names) = 0
       THEN /\ pc' = "raised"
            /\ exception' = "KeyError"
            /\ UNCHANGED << uncertain_indices, uncertain_names, rule_pass >>
       ELSE /\ rule_pass' = df
            /\ uncertain_indices' = MaskedIndices(df, MIN_CONFIDENCE_THRESHOLD)
            /\ uncertain_names' = MaskedNames(df, names, MIN_CONFIDENCE_THRESHOLD)
            /\ pc' = IF Len(uncertain_names') = 0 THEN "final" ELSE "loop"
            /\ exception' = exception
  /\ i' = 0
  /\ UNCHANGED << names, MIN_CONFIDENCE_THRESHOLD, BATCH_SIZE, client, df, idx,
                  batch_names, attempt, batch_results, disk, batches, calls,
                  flushes >>

\* main(), lines 104-107: the head of the batch loop: slice the next batch and
\* hand it to classify_batch_ai, or leave the loop
NextBatch ==
  /\ pc = "loop"
  /\ IF i < Len(uncertain_names)
       THEN /\ batch_names' = BatchSlice(uncertain_names, i, BATCH_SIZE)
            /\ batches' = Append(batches, [start |-> i, names |-> batch_names'])
            /\ attempt' = 1
            /\ pc' = "call"
       ELSE /\ pc' = "final"
            /\ UNCHANGED << batch_names, batches, attempt >>
  /\ UNCHANGED << names, MIN_CONFIDENCE_THRESHOLD, BATCH_SIZE, client, exception,
                  df, idx, uncertain_indices, uncertain_names, i, batch_results,
                  disk, rule_pass, calls, flushes >>

\* classify_batch_ai under @retry(stop_after_attempt(3), wait_fixed(2),
\* retry_if_exception_type(Exception)): one attempt. The body is run; if it
\* raises, tenacity waits and runs it again while attempts are left, and
\* raises RetryError after the last one.
ClassifyBatchAi ==
  /\ pc = "call"
  /\ \E outcome \in Outcomes(Len(batch_names)) :
       LET r == classify_batch_ai_body(client, batch_names, outcome)
       IN  /\ calls' = IF r.invoked
                         THEN Append(calls, [batch |-> Len(batches),
                                             attempt |-> attempt,
                                             outcome |-> outcome])
                         ELSE calls
           /\ IF r.raised /\ attempt < STOP_AFTER_ATTEMPT
                THEN /\ attempt' = attempt + 1
                     /\ UNCHANGED << pc, exception, batch_results >>
              ELSE IF r.raised
                THEN /\ pc' = "raised"
                     /\ exception' = "RetryError"
                     /\ UNCHANGED << attempt, batch_results >>
              ELSE /\ batch_results' = r.value
                   /\ pc' = "apply"
                   /\ UNCHANGED << attempt, exception >>
  /\ UNCHANGED << names, MIN_CONFIDENCE_THRESHOLD, BATCH_SIZE, client, df, idx,
                  uncertain_indices, uncertain_names, i, batch_names, disk,
                  rule_pass, batches, flushes >>

\* main(), lines 110-115 and 119-120: write the batch's results to its rows,
\* or skip the batch when the lengths differ
ApplyBatch ==
  /\ pc = "apply"
  /\ IF Len(batch_results) = Len(batch_names)
       THEN /\ df' = ApplyResults(df,
                       CurrentIndices(uncertain_indices, i, Len(batch_names)),
                       batch_results)
            /\ pc' = "save"
            /\ i' = i
       ELSE /\ df' = df
            /\ pc' = "loop"
            /\ i' = i + BATCH_SIZE
  /\ UNCHANGED << names, MIN_CONFIDENCE_THRESHOLD, BATCH_SIZE, client, exception,
                  idx, uncertain_indices, uncertain_names, batch_names, attempt,
                  batch_results, disk, rule_pass, batches, calls, flushes >>

\* Faulty variant: the intermediate save_csv is left out of the loop.
SaveBatch_unflushed ==
  /\ pc = "save"
  /\ i' = i + BATCH_SIZE
  /\ pc' = "loop"
  /\ UNCHANGED << names, MIN_CONFIDENCE_THRESHOLD, BATCH_SIZE, client, exception,
                  df, idx, uncertain_indices, uncertain_names, batch_names,
                  attempt, batch_results, disk, rule_pass, batches, calls,
                  flushes >>

\* main(), line 118: save_csv after the batch's update; then the next i
SaveBatch ==
  /\ pc = "save"
  /\ Flush(BatchNo)
  /\ i' = i + BATCH_SIZE
  /\ pc' = "loop"
  /\ UNCHANGED << names, MIN_CONFIDENCE_THRESHOLD, BATCH_SIZE, client, exception,
                  df, idx, uncertain_indices, uncertain_names, batch_names,
                  attempt, batch_results, rule_pass, batches, calls >>

\* main(), lines 134 and 138: the two save_csv calls that end the run
FinalSave ==
  /\ pc \in {"final", "final2"}
  /\ Flush(0)
  /\ pc' = IF pc = "final" THEN "final2" ELSE "done"
  /\ UNCHANGED << names, MIN_CONFIDENCE_THRESHOLD, BATCH_SIZE, client, exception,
                  df, idx, uncertain_indices, uncertain_names, i, batch_names,
                  attempt, batch_results, rule_pass, batches, calls >>

Next ==
  \/ LoadCsv
  \/ DetectColumn
  \/ RuleRow
  \/ RulesDone
  \/ NextBatch
  \/ ClassifyBatchAi
  \/ ApplyBatch
  \/ SaveBatch
  \/ FinalSave

\* main() is entered with the input file's names and the configuration read
\* from the environment; nothing has run.
Start(column, threshold, batch_size, has_client) ==
  /\ names = column
  /\ MIN_CONFIDENCE_THRESHOLD = threshold
  /\ BATCH_SIZE = batch_size
  /\ client = has_client
  /\ pc = "load"
  /\ exception = "none"
  /\ df = <<>>
  /\ idx = 1
  /\ uncertain_indices = <<>>
  /\ uncertain_names = <<>>
  /\ i = 0
  /\ batch_names = <<>>
  /\ attempt = 0
  /\ batch_results = <<>>
  /\ disk = [written |-> FALSE, rows |-> <<>>]
  /\ rule_pass = <<>>
  /\ batches = <<>>
  /\ calls = <<>>
  /\ flushes = <<>>

---------------------------------------------------------------------------
(* Bounds and inputs *)

MaxRows ==
  3

MaxBatch ==
  2

\* Thresholds the configuration allows (percent), the default among them.
Thresholds ==
  {DEFAULT_MIN_CONFIDENCE_THRESHOLD, 90}

\* Names of the datasets: a Malay marker, a Chinese surname, no marker.
DatasetNames ==
  {StrName("Ahmad bin Ali"), StrName("Siti Tan"), StrName("Random Xyzzy")}

SeqsUpTo(S, n) ==
  UNION { [1..m -> S] : m \in 0..n }

Init ==
  \E column \in SeqsUpTo(DatasetNames, MaxRows), threshold \in Thresholds,
     batch_size \in 1..MaxBatch, has_client \in BOOLEAN :
    Start(column, threshold, batch_size, has_client)

Spec ==
  Init /\ [][Next]_vars

---------------------------------------------------------------------------
(* The rule engine on its own: one name, classified by the rule pass *)

MaxTokens ==
  3

\* Tokens of the names: the two Malay markers, a Chinese surname, an Indian
\* marker, a Myanmar name element and honorific, a Nepal surname, a
\* Bangladesh surname, and a word that is in no list.
RuleTokens ==
  {"bin", "Binti", "Tan", "a/l", "aung", "u", "thapa", "khan", "xyz"}

\* How a name's tokens are spaced: what precedes, separates and follows them.
Spacings ==
  { [lead |-> "", sep |-> " ", trail |-> ""],
    [lead |-> "  ", sep |-> "   ", trail |-> " "],
    [lead |-> "\t", sep |-> " \t", trail |-> "\n"] }

RECURSIVE Join(_, _)
Join(tokens, sep) ==
  IF Len(tokens) = 0 THEN ""
  ELSE IF Len(tokens) = 1 THEN tokens[1]
  ELSE tokens[1] \o sep \o Join(Tail(tokens), sep)

\* The names the specification gives as examples.
ExampleNames ==
  {"Ahmad bin Tan", "ahmad   bin   abu", "Siti Tan", "Tan Ah Beng",
   "Random Nonmatch Xyzzy"}

RuleNames ==
  {NaN, StrName(""), StrName("   ")}
    \cup { StrName(s) : s \in ExampleNames }
    \cup { StrName(sp.lead \o Join(tokens, sp.sep) \o sp.trail) :
             tokens \in UNION { [1..m -> RuleTokens] : m \in 1..MaxTokens },
             sp \in Spacings }

\* Thresholds of the rule engine's runs: those above and the two ends of [0, 1].
RuleThresholds ==
  Thresholds \cup {0, 100}

\* main() at the start of the rule pass over a dataset of one name.
InitRules ==
  \E name \in RuleNames, threshold \in RuleThresholds :
    /\ names = << name >>
    /\ MIN_CONFIDENCE_THRESHOLD = threshold
    /\ BATCH_SIZE = DEFAULT_BATCH_SIZE
    /\ client = TRUE
    /\ pc = "rules"
    /\ exception = "none"
    /\ df = << Result(Missing, 0) >>
    /\ idx = 1
    /\ uncertain_indices = <<>>
    /\ uncertain_names = <<>>
    /\ i = 0
    /\ batch_names = <<>>
    /\ attempt = 0
    /\ batch_results = <<>>
    /\ disk = [written |-> FALSE, rows |-> <<>>]
    /\ rule_pass = <<>>
    /\ batches = <<>>
    /\ calls = <<>>
    /\ flushes = <<>>

NextRules ==
  \/ RuleRow
  \/ RulesDone

SpecRules ==
  InitRules /\ [][NextRules]_vars

---------------------------------------------------------------------------
(* The rule engine on every short string of letters and whitespace *)

MaxLen ==
  5

\* A lower-case letter, an upper-case letter, a space and a tab.
Alphabet ==
  {"a", "B", " ", "\t"}

RECURSIVE Strings(_)
\* The strings over Alphabet of length n at most.
Strings(n) ==
  IF n = 0 THEN {""}
  ELSE LET shorter == Strings(n - 1)
       IN  shorter \cup { s \o c : s \in shorter, c \in Alphabet }

\* main() at the start of the rule pass over a dataset of one cell.
StartOfRulePass(name, threshold) ==
  /\ names = << name >>
  /\ MIN_CONFIDENCE_THRESHOLD = threshold
  /\ BATCH_SIZE = DEFAULT_BATCH_SIZE
  /\ client = TRUE
  /\ pc = "rules"
  /\ exception = "none"
  /\ df = << Result(Missing, 0) >>
  /\ idx = 1
  /\ uncertain_indices = <<>>
  /\ uncertain_names = <<>>
  /\ i = 0
  /\ batch_names = <<>>
  /\ attempt = 0
  /\ batch_results = <<>>
  /\ disk = [written |-> FALSE, rows |-> <<>>]
  /\ rule_pass = <<>>
  /\ batches = <<>>
  /\ calls = <<>>
  /\ flushes = <<>>

\* The cell is a string over Alphabet, or is not a string.
InitStrings ==
  \E name \in {NaN} \cup { StrName(s) : s \in Strings(MaxLen) } :
    StartOfRulePass(name, DEFAULT_MIN_CONFIDENCE_THRESHOLD)

SpecStrings ==
  InitStrings /\ [][NextRules]_vars

---------------------------------------------------------------------------
(* The rule engine on names of Myanmar honorifics and name elements *)

MaxWords ==
  4

\* A Myanmar honorific, a Myanmar name element, and a word that is in no list.
MyanmarTokens ==
  {"u", "Aung", "xyz"}

\* Thresholds on both sides of each confidence of the Myanmar detector.
MyanmarThresholds ==
  RuleThresholds \cup {70}

InitMyanmar ==
  \E tokens \in UNION { [1..m -> MyanmarTokens] : m \in 1..MaxWords },
     threshold \in MyanmarThresholds :
    StartOfRulePass(StrName(Join(tokens, " ")), threshold)

SpecMyanmar ==
  InitMyanmar /\ [][NextRules]_vars

---------------------------------------------------------------------------
(* The five-row dataset: a Malay marker, a Chinese surname, an Indian marker,
   no marker, an empty cell *)

FiveRows(empty) ==
  << StrName("ahmad   bin   abu"), StrName("Siti Tan"), StrName("Raju a/l Samy"),
     StrName("Random Nonmatch Xyzzy"), empty >>

InitFiveRows ==
  \E empty \in {NaN, StrName("")}, threshold \in Thresholds,
     batch_size \in (1..MaxBatch) \cup {DEFAULT_BATCH_SIZE}, has_client \in BOOLEAN :
    Start(FiveRows(empty), threshold, batch_size, has_client)

SpecFiveRows ==
  InitFiveRows /\ [][Next]_vars

---------------------------------------------------------------------------
(* Many unresolved rows under the default batch size *)

MaxUnresolved ==
  23

\* n rows without a marker (every third an empty cell), and, when `mixed`, a
\* row the rules resolve in front of them and one after the twelfth.
ManyRows(n, mixed) ==
  LET unresolved == [k \in 1..n |->
                      IF k % 3 = 0 THEN NaN ELSE StrName("Random Xyzzy")]
      resolved == << StrName("Ahmad bin Ali") >>
  IN  IF mixed
        THEN resolved \o SubSeq(unresolved, 1, 12) \o resolved
               \o SubSeq(unresolved, 13, n)
        ELSE unresolved

InitManyRows ==
  \E n \in (MaxUnresolved - 1)..MaxUnresolved, mixed \in BOOLEAN,
     has_client \in BOOLEAN :
    Start(ManyRows(n, mixed), DEFAULT_MIN_CONFIDENCE_THRESHOLD,
          DEFAULT_BATCH_SIZE, has_client)

SpecManyRows ==
  InitManyRows /\ [][Next]_vars

---------------------------------------------------------------------------
(* What the claims speak of *)

\* Row r as the rule pass left it.
RuleResult(r) ==
  rule_pass[r]

\* Row r was resolved by the rules: a label, with confidence at or above the
\* threshold.
Resolved(r) ==
  RuleResult(r).ethnicity # "Uncertain"
    /\ RuleResult(r).confidence >= MIN_CONFIDENCE_THRESHOLD

\* The unresolved rows, in row order.
UnresolvedRows ==
  SelectSeq([r \in 1..Len(rule_pass) |-> r], LAMBDA r : ~Resolved(r))

CeilDiv(n, b) ==
  (n + b - 1) \div b

\* The rows the k-th contiguous slice of BATCH_SIZE unresolved rows holds.
BatchRows(k) ==
  SubSeq(UnresolvedRows, (k - 1) * BATCH_SIZE + 1,
         IF k * BATCH_SIZE < Len(UnresolvedRows)
           THEN k * BATCH_SIZE ELSE Len(UnresolvedRows))

\* The external classifier's invocations for batch k.
CallsOf(k) ==
  SelectSeq(calls, LAMBDA c : c.batch = k)

\* classify_batch_ai has returned for batch k and main has written its rows.
Applied(k) ==
  k < Len(batches) \/ (k = Len(batches) /\ pc \notin {"call", "apply"})

\* Batch k's update has been flushed.
Saved(k) ==
  k < Len(batches) \/ (k = Len(batches) /\ pc \notin {"call", "apply", "save"})

\* The external classifier was called for batch k and every call raised.
Failed(k) ==
  /\ Len(CallsOf(k)) > 0
  /\ \A n \in 1..Len(CallsOf(k)) : CallsOf(k)[n].outcome.raised

\* The external classifier answered batch k with a list of another length.
Mismatched(k) ==
  /\ Len(CallsOf(k)) > 0
  /\ LET last == CallsOf(k)[Len(CallsOf(k))].outcome
     IN  ~last.raised /\ Len(last.predictions) # Len(batches[k].names)

\* The external classifier answered batch k with one prediction per name.
Answered(k) ==
  /\ Len(CallsOf(k)) > 0
  /\ LET last == CallsOf(k)[Len(CallsOf(k))].outcome
     IN  ~last.raised /\ Len(last.predictions) = Len(batches[k].names)

\* main() has left the batch loop.
LoopOver ==
  pc \in {"final", "final2", "done"}

Terminated ==
  pc \in {"returned", "raised", "done"}

---------------------------------------------------------------------------
(* Claims *)

\* C1: when the external classifier fails on every attempt for a batch, it is
\* invoked exactly 3 times for that batch before the batch is given up.
C1_ThreeAttemptsOnFailure ==
  (pc = "apply" /\ Failed(Len(batches)))
    => Len(CallsOf(Len(batches))) = STOP_AFTER_ATTEMPT

\* C2: when the external classifier fails for a batch, every row of the batch
\* ends with (Uncertain, 0.0), no exception reaches the caller, and the run
\* goes on: it is never stuck before its end, and at its end every batch has
\* been dispatched and the dataset has been persisted.
C2_FailedBatchDegrades ==
  /\ exception # "RetryError"
  /\ \A k \in 1..Len(batches) :
       (Failed(k) /\ Applied(k)) =>
         \A n \in 1..Len(BatchRows(k)) : df[BatchRows(k)[n]] = Uncertain
  /\ ((\E k \in 1..Len(batches) : Failed(k)) /\ ~Terminated) => ENABLED Next
  /\ ((\E k \in 1..Len(batches) : Failed(k)) /\ pc = "done") =>
       /\ Len(batches) = CeilDiv(Len(UnresolvedRows), BATCH_SIZE)
       /\ disk = [written |-> TRUE, rows |-> df]

\* A failed batch, followed by another batch, in a finished run.
C2_Witness ==
  /\ pc = "done"
  /\ \E k \in 1..(Len(batches) - 1) : Failed(k)

\* C3: a response whose length differs from the batch's is not applied, not
\* even in part: every row of that batch is (Uncertain, 0.0).
C3_MismatchDiscarded ==
  \A k \in 1..Len(batches) :
    (Mismatched(k) /\ Applied(k)) =>
      \A n \in 1..Len(BatchRows(k)) : df[BatchRows(k)[n]] = Uncertain

\* A batch of at least two names answered with one prediction less.
C3_Witness ==
  /\ pc = "done"
  /\ \E k \in 1..Len(batches) :
       /\ Mismatched(k)
       /\ Len(batches[k].names) >= 2
       /\ Len(CallsOf(k)[1].outcome.predictions) = Len(batches[k].names) - 1

\* C4: n unresolved rows are dispatched as ceil(n / BATCH_SIZE) batches, the
\* k-th being the k-th contiguous slice of the unresolved rows in row order:
\* BATCH_SIZE names in every batch but the last, the rest in the last.
C4_Batching ==
  LET n == Len(UnresolvedRows)
      count == CeilDiv(n, BATCH_SIZE)
  IN  /\ Len(batches) <= count
      /\ LoopOver => Len(batches) = count
      /\ \A k \in 1..Len(batches) :
           /\ batches[k].start = (k - 1) * BATCH_SIZE
           /\ batches[k].names = [m \in 1..Len(BatchRows(k)) |-> names[BatchRows(k)[m]]]
           /\ k < count => Len(batches[k].names) = BATCH_SIZE
           /\ k = count => Len(batches[k].names) = n - BATCH_SIZE * (count - 1)

\* A finished run of several batches whose last batch is not full.
C4_Witness ==
  /\ pc = "done"
  /\ Len(batches) >= 2
  /\ Len(batches[Len(batches)].names) < BATCH_SIZE

\* The rows of batch k as classify_batch_ai's contract leaves them.
Expected(k) ==
  IF Answered(k)
    THEN CallsOf(k)[Len(CallsOf(k))].outcome.predictions
    ELSE [n \in 1..Len(BatchRows(k)) |-> Uncertain]

\* The flushes made for a batch, as the numbers of their batches.
BatchFlushes ==
  LET made == SelectSeq(flushes, LAMBDA f : f.batch > 0)
  IN  [n \in 1..Len(made) |-> made[n].batch]

\* C5: the unresolved rows receive their updates through one flush per
\* dispatched batch: when the batch loop is over the flushes made for batches
\* are those of batches 1..ceil(n / BATCH_SIZE) in order, the k-th holding the
\* updates of batches 1..k and not yet those of later batches; for 23
\* unresolved names and BATCH_SIZE = 10 they are exactly 3.
C5_OneFlushPerBatch ==
  LET count == CeilDiv(Len(UnresolvedRows), BATCH_SIZE)
  IN  /\ BatchFlushes = [k \in 1..Len(BatchFlushes) |-> k]
      /\ \A k \in 1..Len(batches) : Saved(k) <=> k <= Len(BatchFlushes)
      /\ LoopOver => Len(BatchFlushes) = count
      /\ (LoopOver /\ Len(UnresolvedRows) = 23 /\ BATCH_SIZE = 10) =>
           Len(BatchFlushes) = 3
      /\ \A k \in 1..Len(BatchFlushes) : \A m \in 1..Len(UnresolvedRows) :
           flushes[k].rows[UnresolvedRows[m]] =
             IF m <= k * BATCH_SIZE
               THEN Expected(((m - 1) \div BATCH_SIZE) + 1)
                      [((m - 1) % BATCH_SIZE) + 1]
               ELSE RuleResult(UnresolvedRows[m])

\* A finished run of 23 unresolved names under BATCH_SIZE = 10 in which the
\* external classifier answered a batch.
C5_Witness ==
  /\ pc = "done"
  /\ Len(UnresolvedRows) = 23
  /\ BATCH_SIZE = 10
  /\ Len(BatchFlushes) = 3
  /\ \E k \in 1..Len(batches) : Answered(k)

\* C6: a row the rule pass resolved keeps its rule-based label and confidence
\* whatever the external classifier returns.
C6_ResolvedRowsKept ==
  \A r \in 1..Len(rule_pass) :
    Resolved(r) => df[r] = RuleResult(r)

\* A finished run with a resolved row after an unresolved one, whose batch
\* the external classifier answered.
C6_Witness ==
  /\ pc = "done"
  /\ \E r \in 1..Len(rule_pass) :
       /\ Resolved(r)
       /\ \E u \in 1..(r - 1) : ~Resolved(u)
  /\ \E k \in 1..Len(batches) : Answered(k)

\* A name has one of the tokens of S as a whitespace-delimited token, in any
\* letter case.
HasToken(name, S) ==
  name.isStr /\ AnyIn(SplitWords(Upper(name.s)), S)

\* C7: a name with BIN or BINTI as a standalone token, at any position, in
\* any letter case and with any whitespace around it, is (Malay, 1.0).
C7_StandaloneMarkerIsMalay ==
  \A r \in 1..Len(rule_pass) :
    HasToken(names[r], {"BIN", "BINTI"}) =>
      rule_pass[r] = Result("Malay", RULE_BASED_CONFIDENCE.MALAY_PATRONYMIC)

\* The detectors in the order of their priority.
DetectorOrder ==
  << "Malay", "Indian", "Chinese", "Myanmar", "Nepal", "Bangladesh" >>

\* What the k-th detector finds in a normalized name; a Myanmar, Nepal or
\* Bangladesh match below the threshold does not satisfy the check.
Detected(k, normalized) ==
  CASE k = 1 -> Detection(is_malay(normalized), RULE_BASED_CONFIDENCE.MALAY_PATRONYMIC)
    [] k = 2 -> Detection(is_indian(normalized), RULE_BASED_CONFIDENCE.INDIAN_PATRONYMIC)
    [] k = 3 -> Detection(is_chinese(normalized, MALAYSIAN_CHINESE_SURNAMES),
                          RULE_BASED_CONFIDENCE.CHINESE_SURNAME)
    [] k = 4 -> classify_myanmar(normalized)
    [] k = 5 -> classify_nepal(normalized)
    [] k = 6 -> classify_bangladesh(normalized)

Satisfied(k, normalized) ==
  /\ Detected(k, normalized).matched
  /\ k > 3 => Detected(k, normalized).confidence >= MIN_CONFIDENCE_THRESHOLD

UncertainRows ==
  { r \in 1..Len(rule_pass) : rule_pass[r].ethnicity = "Uncertain" }

\* C9 as stated: of the five rows exactly one is Uncertain after the rule
\* pass and routed to the orchestrator, and the other four keep their
\* rule-based confidences after the orchestrator has run.
C9_ExactlyOneUncertain ==
  Len(rule_pass) = 5 =>
    /\ Cardinality(UncertainRows) = 1
    /\ Len(uncertain_indices) = 1
    /\ uncertain_indices[1] \in UncertainRows
    /\ pc = "done" =>
         \A r \in (1..5) \ UncertainRows : df[r].confidence = rule_pass[r].confidence

\* C9 as amended: exactly two rows, the unmarked name and the empty cell, are
\* Uncertain after the rule pass; the rows routed to the orchestrator are
\* these two and the marker rows whose confidence is below the threshold (none
\* under the default threshold); every other row keeps its rule-based label
\* and confidence.
C9_TwoUncertainRows ==
  Len(rule_pass) = 5 =>
    /\ UncertainRows = {4, 5}
    /\ rule_pass[1] = Result("Malay", 100)
    /\ rule_pass[2] = Result("Chinese", 85)
    /\ rule_pass[3] = Result("Indian", 95)
    /\ { uncertain_indices[n] : n \in 1..Len(uncertain_indices) } =
         {4, 5} \cup { r \in 1..3 : rule_pass[r].confidence < MIN_CONFIDENCE_THRESHOLD }
    /\ MIN_CONFIDENCE_THRESHOLD = DEFAULT_MIN_CONFIDENCE_THRESHOLD =>
         uncertain_indices = << 4, 5 >>
    /\ \A r \in 1..3 :
         rule_pass[r].confidence >= MIN_CONFIDENCE_THRESHOLD => df[r] = rule_pass[r]

\* A finished run over the five rows under the default threshold in which
\* the external classifier answered for the two routed rows.
C9_Witness ==
  /\ pc = "done"
  /\ Len(rule_pass) = 5
  /\ MIN_CONFIDENCE_THRESHOLD = DEFAULT_MIN_CONFIDENCE_THRESHOLD
  /\ \E k \in 1..Len(batches) : Answered(k)
  /\ df[4] # Uncertain

\* C10: a failure on batch k touches the rows of batch k alone: every other
\* batch that was processed holds, in the dataset and on disk once flushed,
\* exactly what the classifier returned for it; the rows of the batches still
\* to come hold their rule-pass values; and every batch is dispatched.
C10_FailureContained ==
  /\ \A k \in 1..Len(batches) : \A n \in 1..Len(BatchRows(k)) :
       /\ Applied(k) => df[BatchRows(k)[n]] = Expected(k)[n]
       /\ Saved(k) => disk.rows[BatchRows(k)[n]] = Expected(k)[n]
       /\ ~Applied(k) => df[BatchRows(k)[n]] = RuleResult(BatchRows(k)[n])
  /\ \A m \in 1..Len(UnresolvedRows) :
       m > Len(batches) * BATCH_SIZE =>
         df[UnresolvedRows[m]] = RuleResult(UnresolvedRows[m])
  /\ LoopOver => Len(batches) = CeilDiv(Len(UnresolvedRows), BATCH_SIZE)

\* A finished run whose second batch failed between two answered batches.
C10_Witness ==
  /\ pc = "done"
  /\ \E k \in 2..(Len(batches) - 1) :
       Failed(k) /\ Answered(k - 1) /\ Answered(k + 1)

\* A row holds exactly one result: a label of the closed set and a confidence
\* in [0.0, 1.0].
Complete(row) ==
  /\ DOMAIN row = {"ethnicity", "confidence"}
  /\ row.ethnicity \in EthnicityLabels
  /\ row.confidence \in 0..100

\* C11: in every persisted snapshot of the dataset (each per-batch flush and
\* each end-of-run flush, and so the file on disk) there is one row per input
\* row, and every row holds a label of the closed set and a confidence in
\* [0.0, 1.0], never a missing value.
C11_SnapshotsComplete ==
  /\ \A n \in 1..Len(flushes) :
       /\ Len(flushes[n].rows) = Len(names)
       /\ \A r \in 1..Len(names) : Complete(flushes[n].rows[r])
  /\ disk.written =>
       /\ Len(disk.rows) = Len(names)
       /\ \A r \in 1..Len(names) : Complete(disk.rows[r])

\* A finished run with a per-batch flush of a failed batch, a per-batch flush
\* of an answered batch and the end-of-run flush.
C11_Witness ==
  /\ pc = "done"
  /\ \E n, m \in 1..Len(flushes) :
       /\ flushes[n].batch > 0 /\ Failed(flushes[n].batch)
       /\ flushes[m].batch > 0 /\ Answered(flushes[m].batch)
  /\ flushes[Len(flushes)].batch = 0

\* The rows of the batch in flight: sliced, and not yet flushed.
InFlightRows ==
  IF pc \in {"call", "apply", "save"}
    THEN { BatchRows(Len(batches))[n] : n \in 1..Len(BatchRows(Len(batches))) }
    ELSE {}

\* Every row outside the batch in flight is on disk as the dataset holds it.
LossWithinInFlightBatch ==
  /\ Len(disk.rows) = Len(df)
  /\ \A r \in 1..Len(df) : disk.rows[r] # df[r] => r \in InFlightRows

\* C12 as stated: from the end of the rule pass on, whatever the point of
\* interruption, the file on disk holds the rule pass and every earlier batch
\* in full: it differs from the dataset in the rows of the in-flight batch
\* at most.
C12_LossAtMostInFlightBatch ==
  Len(rule_pass) > 0 =>
    /\ disk.written
    /\ LossWithinInFlightBatch

\* C12 as amended: from the first flush on, the file on disk differs from the
\* dataset in the rows of the in-flight batch at most, and holds the rule
\* pass's result of every row the rules resolved; nothing at all is on disk
\* until the first flush, which is the first batch's (or the end-of-run flush
\* when no batch is dispatched).
C12_LossBoundedAfterFirstFlush ==
  /\ disk.written =>
       /\ LossWithinInFlightBatch
       /\ \A r \in 1..Len(rule_pass) : Resolved(r) => disk.rows[r] = RuleResult(r)
  /\ ~disk.written =>
       /\ Len(flushes) = 0
       /\ Len(batches) <= 1
       /\ pc \notin {"final2", "done"}
  /\ (Len(batches) > 1 \/ Saved(1)) => disk.written

\* The second batch's answers are in the dataset and not yet flushed, the
\* first batch's are on disk.
C12_Witness ==
  /\ pc = "save"
  /\ Len(batches) = 2
  /\ Answered(1) /\ Answered(2)
  /\ disk.written
  /\ disk.rows # df
  /\ disk.rows # rule_pass

\* The run entered the rule pass (it did not return on a load or column
\* failure) and has ended.
EndedAfterClassification ==
  pc \in {"raised", "done"}

\* C13: every run that reaches classification ends with a flush of the full
\* dataset: when such a run has ended, its last flush is an end-of-run flush
\* of every row of the dataset as it then is, and that is what is on disk;
\* this includes the run in which no batch was dispatched.
C13_EndsWithFullFlush ==
  EndedAfterClassification =>
    /\ Len(flushes) > 0
    /\ flushes[Len(flushes)].batch = 0
    /\ flushes[Len(flushes)].rows = df
    /\ Len(df) = Len(names)
    /\ disk = [written |-> TRUE, rows |-> df]

\* The fixed confidence of a Malay, Indian or Chinese detection.
FixedConfidence(label) ==
  CASE label = "Malay" -> 100
    [] label = "Indian" -> 95
    [] label = "Chinese" -> 85

\* Row r is queued for the AI fallback.
Queued(r) ==
  \E n \in 1..Len(uncertain_indices) : uncertain_indices[n] = r

\* C14 as stated: a row the rules label Malay, Indian or Chinese has the
\* fixed confidence 1.0, 0.95 or 0.85, that confidence is at or above the
\* configured threshold whatever the threshold in [0, 1], and the row is not
\* queued for the AI fallback.
C14_NeverQueued ==
  \A r \in 1..Len(rule_pass) :
    rule_pass[r].ethnicity \in {"Malay", "Indian", "Chinese"} =>
      /\ rule_pass[r].confidence = FixedConfidence(rule_pass[r].ethnicity)
      /\ rule_pass[r].confidence >= MIN_CONFIDENCE_THRESHOLD
      /\ ~Queued(r)

\* C14 as amended: a row the rules label Malay, Indian or Chinese has the
\* fixed confidence 1.0, 0.95 or 0.85 whatever the threshold, and it is queued
\* for the AI fallback exactly when the threshold is above that confidence:
\* never under a threshold of at most 0.85 (the default 0.6 among them), and
\* a Malay row under no threshold at all.
C14_QueuedIffBelowThreshold ==
  \A r \in 1..Len(rule_pass) :
    rule_pass[r].ethnicity \in {"Malay", "Indian", "Chinese"} =>
      /\ rule_pass[r].confidence = FixedConfidence(rule_pass[r].ethnicity)
      /\ Queued(r) <=> FixedConfidence(rule_pass[r].ethnicity) < MIN_CONFIDENCE_THRESHOLD
      /\ MIN_CONFIDENCE_THRESHOLD <= 85 => ~Queued(r)
      /\ rule_pass[r].ethnicity = "Malay" => ~Queued(r)

\* Under the threshold 0.9 a name with a Chinese surname is labelled Chinese
\* with 0.85 and queued.
C14_Witness ==
  /\ MIN_CONFIDENCE_THRESHOLD = 90
  /\ Len(rule_pass) = 1
  /\ rule_pass[1] = Result("Chinese", 85)
  /\ uncertain_indices = << 1 >>
  /\ uncertain_names = << names[1] >>

\* C15: normalization is idempotent, normalize(normalize(x)) = normalize(x)
\* for the name x of every row (under SpecStrings every string of letters,
\* spaces and tabs up to MaxLen characters), and a cell that is not a string
\* normalizes to the empty string.
C15_NormalizeIdempotent ==
  \A r \in 1..Len(names) :
    LET once == normalize_name(names[r])
    IN  /\ normalize_name(StrName(once)) = once
        /\ ~names[r].isStr => once = ""

\* The rule pass has classified a name with leading whitespace, a run of a
\* tab and a space, and a lower-case letter, which normalization changes.
C15_Witness ==
  /\ names = << StrName(" a\t B") >>
  /\ normalize_name(names[1]) = "A B"
  /\ idx = 2
  /\ df[1].ethnicity # Missing

\* C16: reconciliation is positional. In the step that applies a batch's
\* results, the batch's j-th name is the name of the j-th row of the batch,
\* the results handed over are the response's predictions when the
\* classifier answered, and the step writes the j-th result to that j-th row
\* and leaves every other row as it was.
C16_PositionalReconciliation ==
  [][ (pc = "apply" /\ Len(batch_results) = Len(batch_names)) =>
        LET rows == BatchRows(Len(batches))
            last == calls[Len(calls)]
        IN  /\ Len(rows) = Len(batch_names)
            /\ \A j \in 1..Len(rows) : names[rows[j]] = batch_names[j]
            /\ Answered(Len(batches)) => batch_results = last.outcome.predictions
            /\ Len(df') = Len(df)
            /\ \A j \in 1..Len(rows) : df'[rows[j]] = batch_results[j]
            /\ \A r \in 1..Len(df) :
                 (\A j \in 1..Len(rows) : rows[j] # r) => df'[r] = df[r] ]_vars

\* A batch of two names drawn from rows that are not adjacent, answered with
\* two different predictions, has been applied.
C16_Witness ==
  /\ pc = "save"
  /\ Answered(Len(batches))
  /\ Len(batch_results) = 2
  /\ batch_results[1] # batch_results[2]
  /\ BatchRows(Len(batches)) = << 1, 3 >>
  /\ df[1] = batch_results[1]
  /\ df[3] = batch_results[2]

\* C17: batches are processed one at a time in order. In every step that
\* invokes the external classifier, the call is for the latest batch sliced,
\* no earlier call was for a later batch, every earlier batch has been applied
\* and flushed (one flush per earlier batch, the file on disk equal to the
\* dataset), and the call has returned when the step ends, so that no two
\* calls are in flight together.
C17_OneBatchAtATime ==
  [][ calls' # calls =>
        LET k == Len(batches)
        IN  /\ pc = "call"
            /\ calls' = Append(calls, calls'[Len(calls')])
            /\ calls'[Len(calls')].batch = k
            /\ \A n \in 1..Len(calls) : calls[n].batch <= k
            /\ BatchFlushes = [m \in 1..(k - 1) |-> m]
            /\ k > 1 => disk = [written |-> TRUE, rows |-> df]
            /\ \A m \in 1..(k - 1) : \A n \in 1..Len(BatchRows(m)) :
                 df[BatchRows(m)[n]] = Expected(m)[n]
            /\ pc' \in {"call", "apply", "raised"}
            /\ pc' = "apply" => Len(batch_results') = Len(batch_names) ]_vars

\* The classifier has been called for the third batch, after the first two
\* batches were answered, applied and flushed.
C17_Witness ==
  /\ pc = "apply"
  /\ Len(batches) = 3
  /\ Len(calls) = 3
  /\ calls[3].batch = 3
  /\ Answered(1) /\ Answered(2)
  /\ BatchFlushes = << 1, 2 >>

\* The words of row r's name.
Words(r) ==
  SplitWords(normalize_name(names[r]))

\* The Myanmar decision table, top to bottom, for a name with or without an
\* honorific, element_count name elements and word_count words.
MyanmarTable(honorific, element_count, word_count) ==
  CASE honorific /\ element_count > 0 -> Detection(TRUE, 90)
    [] honorific /\ element_count = 0 /\ word_count \in 1..3 -> Detection(TRUE, 75)
    [] ~honorific /\ element_count >= 2 /\ word_count \in 1..3 -> Detection(TRUE, 70)
    [] ~honorific /\ element_count = 1 /\ word_count \in 1..2 -> Detection(TRUE, 65)
    [] OTHER -> Detection(FALSE, 0)

\* The table's row for the name of row r.
MyanmarRow(r) ==
  LET elements == { MYANMAR_NAME_ELEMENTS[n] : n \in 1..Len(MYANMAR_NAME_ELEMENTS) }
  IN  MyanmarTable(\E n \in 1..Len(Words(r)) : Words(r)[n] \in MYANMAR_HONORIFICS,
                   Cardinality({ n \in 1..Len(Words(r)) : Words(r)[n] \in elements }),
                   Len(Words(r)))

\* C18: the Myanmar detector returns what the decision table gives, first
\* satisfied row first (0.9, 0.75, 0.7, 0.65, no match), and a row is labelled
\* Myanmar by the rules only when the table matched with a confidence at or
\* above the threshold, with that confidence; a name no Malaysian detector
\* matched is labelled Myanmar whenever the table matched at or above the
\* threshold.
C18_MyanmarDecisionTable ==
  \A r \in 1..Len(rule_pass) :
    (names[r].isStr /\ names[r].s # "") =>
      LET normalized == normalize_name(names[r])
          row == MyanmarRow(r)
          accepted == row.matched /\ row.confidence >= MIN_CONFIDENCE_THRESHOLD
      IN  /\ classify_myanmar(normalized) = row
          /\ rule_pass[r].ethnicity = "Myanmar" =>
               accepted /\ rule_pass[r].confidence = row.confidence
          /\ (/\ accepted
              /\ ~is_malay(normalized)
              /\ ~is_indian(normalized)
              /\ ~is_chinese(normalized, MALAYSIAN_CHINESE_SURNAMES)) =>
               rule_pass[r] = Result("Myanmar", row.confidence)

\* One name element in two words matches the table's last row with 0.65,
\* which the threshold 0.7 rejects: the row is left Uncertain.
C18_Witness ==
  /\ names = << StrName("Aung xyz") >>
  /\ MIN_CONFIDENCE_THRESHOLD = 70
  /\ MyanmarRow(1) = Detection(TRUE, 65)
  /\ Len(rule_pass) = 1
  /\ rule_pass[1] = Uncertain
  /\ uncertain_indices = << 1 >>

\* The rows dispatched in batch k: the slice of uncertain_indices that goes
\* with the batch's names.
Dispatched(k) ==
  LET rows == Slice(uncertain_indices, batches[k].start,
                    batches[k].start + Len(batches[k].names))
  IN  { rows[n] : n \in 1..Len(rows) }

\* C19: the pipeline terminates at the final persist for every dataset. A
\* run that entered classification and has ended has reached the end-of-run
\* flush; each unresolved row was dispatched in exactly one batch; the
\* unresolved set is the one computed when the rule pass ended; the
\* classifier was called at most STOP_AFTER_ATTEMPT times per batch.
C19_TerminatesAtFinalPersist ==
  EndedAfterClassification =>
    /\ pc = "done"
    /\ disk = [written |-> TRUE, rows |-> df]
    /\ uncertain_indices = UnresolvedRows
    /\ \A m \in 1..Len(UnresolvedRows) :
         Cardinality({ k \in 1..Len(batches) :
                         UnresolvedRows[m] \in Dispatched(k) }) = 1
    /\ Len(batches) = CeilDiv(Len(UnresolvedRows), BATCH_SIZE)
    /\ Len(calls) <= Len(batches) * STOP_AFTER_ATTEMPT

\* An upper bound on the steps main() has left: six per batch still to be
\* processed (slice, at most STOP_AFTER_ATTEMPT calls, apply, save), the exit
\* of the loop and the two end-of-run saves.
StepsLeft ==
  LET perBatch == STOP_AFTER_ATTEMPT + 3
      rest == IF i < Len(uncertain_names)
                THEN CeilDiv(Len(uncertain_names) - i, BATCH_SIZE) ELSE 0
      all == perBatch * Len(names) + 3
  IN  CASE pc = "load" -> all + Len(names) + 3
        [] pc = "detect" -> all + Len(names) + 2
        [] pc = "rules" -> all + Len(names) + 2 - idx
        [] pc = "loop" -> perBatch * rest + 3
        [] pc = "call" -> perBatch * (rest - 1) + 3 + 2 + (STOP_AFTER_ATTEMPT + 1 - attempt)
        [] pc = "apply" -> perBatch * (rest - 1) + 3 + 2
        [] pc = "save" -> perBatch * (rest - 1) + 3 + 1
        [] pc = "final" -> 2
        [] pc = "final2" -> 1
        [] OTHER -> 0

\* Every step of main() lowers StepsLeft, which is never negative: no run has
\* more steps than StepsLeft counts at its start, and the classifier is
\* called a bounded number of times.
EveryStepCountsDown ==
  [][StepsLeft >= 0 /\ StepsLeft' >= 0 /\ StepsLeft' < StepsLeft]_vars

====
